---------------------------- MODULE Spec2Model ----------------------------
(***************************************************************************)
(* Model of the state engine of src/app.py: the wall clock, the streak     *)
(* tracker, the task / habit store, the weekly-goal store with its lazy    *)
(* rollover, the energy log, the per-day journal and the dispatcher of the *)
(* [ACTION:...] directives (process_ai_actions).                           *)
(*                                                                         *)
(* Dates are the broken-down fields that datetime.now() carries; a date    *)
(* string "%Y-%m-%d" is the record [y, m, d] of those fields.  Text is a   *)
(* sequence of one-character strings, so that str.lower, str.strip and the *)
(* substring test are computed, not assumed.                               *)
(***************************************************************************)
EXTENDS Integers, Sequences, FiniteSets, TLC

VARIABLES
    now,          \* datetime.now(): [y, m, d, tick], tick = time of day
    streakFile,   \* STREAK_FILE: <<>> when absent, else <<streak record>>
    tasksFile,    \* TASKS_FILE content: [recurring, tasks]
    goalsFile,    \* WEEKLY_GOALS_FILE content: [week, goals]
    energyFile,   \* ENERGY_FILE content: sequence of [date, readings]
    journal,      \* JOURNAL_DIR: sequence of [date, entries], one per day file
    idClock,      \* number of identifiers handed out (ids are timestamps)
    op,           \* history: the operation that produced this state
    arg,          \* history: its input
    pre,          \* history: the persisted state it started from
    ret           \* history: what it returned

vars == <<now, streakFile, tasksFile, goalsFile, energyFile, journal,
          idClock, op, arg, pre, ret>>

stores == <<streakFile, tasksFile, goalsFile, energyFile, journal, idClock>>

-----------------------------------------------------------------------------
(* Bounds of the model.                                                    *)

\* days the clock may advance past the start date in the streak model
MaxStreakDay == 12
\* days the clock may advance past the start date in the store models
MaxDay == 1
\* records the stores may hold together (tasks, habits and their
\* completions, goals, energy readings, journal entries), and identifiers
\* that may be handed out
MaxRecords == 3
\* records the stores may hold together while responses are dispatched
MaxDispatched == 2

\* records in the stores of a session (script runs with their journal lines)
MaxSessionRecords == 5
\* ticks (times of day) per calendar day
TicksPerDay == 2

-----------------------------------------------------------------------------
(* The persisted state an operation starts from (history only).            *)

Snapshot ==
    [streakFile |-> streakFile, tasksFile |-> tasksFile, goalsFile |-> goalsFile,
     energyFile |-> energyFile, journal |-> journal, idClock |-> idClock]

-----------------------------------------------------------------------------
(* Optional values: None is the empty sequence, a value v is <<v>>.        *)

None == <<>>
Some(v) == <<v>>

-----------------------------------------------------------------------------
(* Calendar arithmetic of datetime.                                        *)

IsLeap(y) == (y % 4 = 0) /\ ((y % 100 # 0) \/ (y % 400 = 0))

MonthLengths == <<31, 28, 31, 30, 31, 30, 31, 31, 30, 31, 30, 31>>

DaysInMonth(y, m) == IF m = 2 /\ IsLeap(y) THEN 29 ELSE MonthLengths[m]

RECURSIVE DaysBeforeMonth(_, _)
DaysBeforeMonth(y, m) ==
    IF m = 1 THEN 0 ELSE DaysBeforeMonth(y, m - 1) + DaysInMonth(y, m - 1)

DaysBeforeYear(y) ==
    (y - 1) * 365 + ((y - 1) \div 4) - ((y - 1) \div 100) + ((y - 1) \div 400)

\* date.toordinal()
ToOrdinal(dt) == DaysBeforeYear(dt.y) + DaysBeforeMonth(dt.y, dt.m) + dt.d

\* date.weekday(): Monday is 0
Weekday(dt) == (ToOrdinal(dt) + 6) % 7

\* tm_yday, counted from 0
YearDay(dt) == DaysBeforeMonth(dt.y, dt.m) + dt.d - 1

\* the calendar day after dt
NextDate(dt) ==
    IF dt.d < DaysInMonth(dt.y, dt.m) THEN [y |-> dt.y, m |-> dt.m, d |-> dt.d + 1]
    ELSE IF dt.m < 12 THEN [y |-> dt.y, m |-> dt.m + 1, d |-> 1]
    ELSE [y |-> dt.y + 1, m |-> 1, d |-> 1]

\* the date the model's clock starts at: Wednesday 31 December 2025
StartDate == [y |-> 2025, m |-> 12, d |-> 31]

DateOf(t) == [y |-> t.y, m |-> t.m, d |-> t.d]

\* the instant of a datetime in ticks, for datetime subtraction
Instant(t) == ToOrdinal(DateOf(t)) * TicksPerDay + t.tick

\* datetime.strptime(s, "%Y-%m-%d"): midnight of the date
strptime(s) == [y |-> s.y, m |-> s.m, d |-> s.d, tick |-> 0]

\* whole days of the difference, a started day counted as a whole one
TimedeltaDaysUp(a, b) == -((Instant(b) - Instant(a)) \div TicksPerDay)

\* (a - b).days: whole days of the difference, rounded down
TimedeltaDays(a, b) == (Instant(a) - Instant(b)) \div TicksPerDay

get_today == DateOf(now)

\* strftime("%W"): week of the year, weeks start on Monday, days before the
\* year's first Monday are in week 0
WeekOfYear(dt) == (YearDay(dt) + 7 - Weekday(dt)) \div 7

\* strftime("%Y-W%W")
WeekKey(dt) == [y |-> dt.y, w |-> WeekOfYear(dt)]

get_week_number == WeekKey(DateOf(now))

\* a is an earlier calendar date than b
DateLess(a, b) ==
    \/ a.y < b.y
    \/ a.y = b.y /\ a.m < b.m
    \/ a.y = b.y /\ a.m = b.m /\ a.d < b.d

DaysElapsed == ToOrdinal(DateOf(now)) - ToOrdinal(StartDate)

\* no operation is running: the history variables are blank
Idle == op = "idle"

\* the operation that ran has returned; what it did is forgotten
Return ==
    /\ ~Idle
    /\ op' = "idle"
    /\ arg' = None
    /\ ret' = None
    /\ pre' = Snapshot
    /\ UNCHANGED <<now, stores>>

\* the clock advances: later the same day, or midnight passes
Tick(limit) ==
    /\ \/ /\ now.tick + 1 < TicksPerDay
          /\ now' = [now EXCEPT !.tick = now.tick + 1]
       \/ /\ DaysElapsed < limit
          /\ \E t \in 0..(TicksPerDay - 1) :
                now' = [y |-> NextDate(DateOf(now)).y, m |-> NextDate(DateOf(now)).m,
                        d |-> NextDate(DateOf(now)).d, tick |-> t]
    /\ Idle
    /\ UNCHANGED <<stores, op, arg, ret, pre>>

\* midnight passes: the clock shows the start of the next day
NextDay(limit) ==
    /\ DaysElapsed < limit
    /\ now' = [y |-> NextDate(DateOf(now)).y, m |-> NextDate(DateOf(now)).m,
               d |-> NextDate(DateOf(now)).d, tick |-> 0]
    /\ Idle
    /\ UNCHANGED <<stores, op, arg, ret, pre>>

-----------------------------------------------------------------------------
(* Streak tracker.                                                         *)

\* get_streak's value when STREAK_FILE does not exist
DefaultStreak ==
    [current |-> 0, longest |-> 0, last_checkin |-> None,
     start_date |-> get_today, total_days |-> 0]

StreakOf(file) == IF file = None THEN DefaultStreak ELSE file[1]

get_streak == StreakOf(streakFile)

\* diff = (datetime.now() - last).days
CheckinDiff(s, t) == TimedeltaDays(t, strptime(s.last_checkin[1]))

\* a consecutive day that is not added to the cumulative total
StreakConsecutiveKeepsTotal(s) ==
    LET bumped == [s EXCEPT !.current = s.current + 1]
    IN  IF bumped.current > bumped.longest
        THEN [bumped EXCEPT !.longest = bumped.current]
        ELSE bumped

\* the branch "diff == 1"
StreakConsecutive(s) ==
    LET bumped == [s EXCEPT !.current = s.current + 1,
                            !.total_days = s.total_days + 1]
    IN  IF bumped.current > bumped.longest
        THEN [bumped EXCEPT !.longest = bumped.current]
        ELSE bumped

\* a reset that also zeroes the cumulative total
StreakResetZeroTotal(s) == [s EXCEPT !.current = 1, !.total_days = 1]

\* the branch "diff > 1"
StreakReset(s) == [s EXCEPT !.current = 1, !.total_days = s.total_days + 1]

\* the branch "no last check-in"
StreakFirst(s) == [s EXCEPT !.current = 1, !.total_days = 1]

\* the counters after the branches of lines 273-286
StreakCounted(s, t) ==
    IF s.last_checkin # None
    THEN IF CheckinDiff(s, t) = 1 THEN StreakConsecutive(s)
         ELSE IF CheckinDiff(s, t) > 1 THEN StreakReset(s)
         ELSE s
    ELSE StreakFirst(s)

\* an update that counts every invocation: no same-day return, and every
\* gap other than a long one taken as consecutive
UpdatedStreakEveryRun(s, t) ==
    [(IF s.last_checkin = None THEN StreakFirst(s)
      ELSE IF CheckinDiff(s, t) > 1 THEN StreakReset(s)
      ELSE StreakConsecutive(s))
     EXCEPT !.last_checkin = Some(DateOf(t))]

\* the record update_streak returns when run at time t on stored streak s
UpdatedStreak(s, t) ==
    IF s.last_checkin = Some(DateOf(t)) THEN s
    ELSE [StreakCounted(s, t) EXCEPT !.last_checkin = Some(DateOf(t))]

\* update_streak(), run at the top of every script run
update_streak ==
    /\ Idle
    \* the early return of line 272 writes nothing; the file then already
    \* holds the record returned
    /\ streakFile' = Some(UpdatedStreak(get_streak, now))
    /\ op' = "update_streak"
    /\ arg' = None
    /\ ret' = Some(UpdatedStreak(get_streak, now))
    /\ pre' = Snapshot
    /\ UNCHANGED <<now, tasksFile, goalsFile, energyFile, journal, idClock>>

-----------------------------------------------------------------------------
(* Text: sequences of one-character strings.                               *)

LowerCase == <<"a", "b", "c", "d", "e", "f", "g", "h", "i", "j", "k", "l", "m",
               "n", "o", "p", "q", "r", "s", "t", "u", "v", "w", "x", "y", "z">>

UpperCase == <<"A", "B", "C", "D", "E", "F", "G", "H", "I", "J", "K", "L", "M",
               "N", "O", "P", "Q", "R", "S", "T", "U", "V", "W", "X", "Y", "Z">>

Digits == <<"0", "1", "2", "3", "4", "5", "6", "7", "8", "9">>

Range(f) == {f[i] : i \in DOMAIN f}

Whitespace == {" ", "\n", "\t"}

PosIn(alphabet, c) == CHOOSE i \in DOMAIN alphabet : alphabet[i] = c

LowerChar(c) == IF c \in Range(UpperCase) THEN LowerCase[PosIn(UpperCase, c)] ELSE c

UpperChar(c) == IF c \in Range(LowerCase) THEN UpperCase[PosIn(LowerCase, c)] ELSE c

\* str.lower()
Lower(s) == [i \in DOMAIN s |-> LowerChar(s[i])]

\* str.upper()
Upper(s) == [i \in DOMAIN s |-> UpperChar(s[i])]

\* str.strip()
Strip(s) ==
    LET kept == {i \in DOMAIN s : s[i] \notin Whitespace}
    IN  IF kept = {} THEN <<>>
        ELSE SubSeq(s, CHOOSE i \in kept : \A j \in kept : i <= j,
                       CHOOSE i \in kept : \A j \in kept : i >= j)

\* sub in s
Contains(sub, s) ==
    \E i \in 0..(Len(s) - Len(sub)) : SubSeq(s, i + 1, i + Len(sub)) = sub

\* the concatenation of a sequence of sequences
RECURSIVE Concat(_)
Concat(parts) == IF parts = <<>> THEN <<>> ELSE Head(parts) \o Concat(Tail(parts))

\* the least index in the set hits, 0 when the set is empty
FirstIndex(hits) == IF hits = {} THEN 0 ELSE CHOOSE i \in hits : \A j \in hits : i <= j

-----------------------------------------------------------------------------
(* The stores as one value, so that a handler's calls compose:             *)
(* S = [tasksFile, goalsFile, energyFile, journal, idClock].               *)

Stores ==
    [tasksFile |-> tasksFile, goalsFile |-> goalsFile, energyFile |-> energyFile,
     journal |-> journal, idClock |-> idClock]

\* the handler leaves the stores as S
StoresBecome(S) ==
    /\ tasksFile' = S.tasksFile
    /\ goalsFile' = S.goalsFile
    /\ energyFile' = S.energyFile
    /\ journal' = S.journal
    /\ idClock' = S.idClock

\* datetime.now().strftime("%Y%m%d%H%M%S%f"): a fresh identifier, later than
\* every identifier handed out before
NewId(S) == S.idClock + 1

-----------------------------------------------------------------------------
(* Task store.                                                             *)

DefaultTasks == [recurring |-> <<>>, tasks |-> <<>>]

\* the data read_tasks returns
TasksOf(file) == IF file = None THEN DefaultTasks ELSE file[1]

\* read_tasks also writes the default when TASKS_FILE does not exist
read_tasks(S) == [S EXCEPT !.tasksFile = Some(TasksOf(S.tasksFile))]

save_tasks(S, data) == [S EXCEPT !.tasksFile = Some(data)]

\* add_task: the stores afterwards
add_task(S, t, task_text, category, is_recurring) ==
    LET data == TasksOf(S.tasksFile)
        task == [id |-> NewId(S), task |-> task_text, category |-> category,
                 status |-> "todo", created |-> DateOf(t), completed |-> None,
                 recurring |-> is_recurring, completions |-> <<>>]
        S1 == [S EXCEPT !.idClock = NewId(S)]
    IN  IF is_recurring
        THEN save_tasks(S1, [data EXCEPT !.recurring = Append(@, task)])
        ELSE save_tasks(S1, [data EXCEPT !.tasks = Append(@, task)])

\* lines 155-157: the date is appended to the habit's completions
HabitCompleted(h, today) == [h EXCEPT !.completions = Append(@, today)]

\* a completion that reopens a task that is already done
TaskCompletedToggles(task, today) ==
    IF task.status = "done"
    THEN [task EXCEPT !.status = "todo", !.completed = None]
    ELSE [task EXCEPT !.status = "done", !.completed = Some(today)]

\* lines 159-160 and 170-171
TaskCompleted(task, today) ==
    [task EXCEPT !.status = "done", !.completed = Some(today)]

\* complete_task: the first record of the list with the identifier
complete_task(S, t, task_id, is_recurring) ==
    LET data == TasksOf(S.tasksFile)
        list == IF is_recurring THEN data.recurring ELSE data.tasks
        i == FirstIndex({k \in DOMAIN list : list[k].id = task_id})
    IN  IF i = 0 THEN save_tasks(S, data)
        ELSE IF is_recurring
        THEN save_tasks(S, [data EXCEPT !.recurring[i] = HabitCompleted(@, DateOf(t))])
        ELSE save_tasks(S, [data EXCEPT !.tasks[i] = TaskCompleted(@, DateOf(t))])

\* a match that ignores the status of the task
NameMatchesAnyStatus(task_name, task) ==
    Contains(Lower(task_name), Lower(task.task))

\* a match that compares the name as given with the lowered task text
NameMatchesNameAsGiven(task_name, task) ==
    task.status = "todo" /\ Contains(task_name, Lower(task.task))

\* line 169
NameMatches(task_name, task) ==
    task.status = "todo" /\ Contains(Lower(task_name), Lower(task.task))

\* complete_task_by_name: [S: the stores afterwards, ret: the text returned]
complete_task_by_name(S, t, task_name) ==
    LET data == TasksOf(S.tasksFile)
        i == FirstIndex({k \in DOMAIN data.tasks : NameMatches(task_name, data.tasks[k])})
    IN  IF i = 0 THEN [S |-> read_tasks(S), ret |-> None]
        ELSE [S |-> save_tasks(S, [data EXCEPT !.tasks[i] = TaskCompleted(@, DateOf(t))]),
              ret |-> Some(data.tasks[i].task)]

\* get_open_tasks
get_open_tasks(S) == SelectSeq(TasksOf(S.tasksFile).tasks, LAMBDA x : x.status = "todo")

\* get_recurring_tasks: done_today of each habit
done_today(h, today) == \E k \in DOMAIN h.completions : h.completions[k] = today

-----------------------------------------------------------------------------
(* Journal: one file per day, a header and then the entries appended.      *)

\* the index of the day file of date in the journal directory, 0 when absent
JournalIndex(J, date) == FirstIndex({k \in DOMAIN J : J[k].date = date})

\* read_today_journal: the entries of today's file, <<>> when there is none
JournalEntries(J, date) ==
    IF JournalIndex(J, date) = 0 THEN <<>> ELSE J[JournalIndex(J, date)].entries

\* an append that writes the new line over the content of today's file
AppendJournalRewrites(S, t, entry) ==
    LET i == JournalIndex(S.journal, DateOf(t))
        line == [time |-> t.tick, entry |-> entry]
    IN  IF i = 0
        THEN [S EXCEPT !.journal =
                  Append(@, [date |-> DateOf(t),
                             header |-> [date |-> DateOf(t), weekday |-> Weekday(DateOf(t))],
                             entries |-> <<line>>])]
        ELSE [S EXCEPT !.journal[i].entries = <<line>>]

\* append_journal: "**HH:MM** - entry" is added at the end of today's file,
\* which starts with the header "# Journal: date (weekday)" when created
append_journal(S, t, entry) ==
    LET i == JournalIndex(S.journal, DateOf(t))
        line == [time |-> t.tick, entry |-> entry]
    IN  IF i = 0
        THEN [S EXCEPT !.journal =
                  Append(@, [date |-> DateOf(t),
                             header |-> [date |-> DateOf(t), weekday |-> Weekday(DateOf(t))],
                             entries |-> <<line>>])]
        ELSE [S EXCEPT !.journal[i].entries = Append(@, line)]

\* the texts written to the journal: a tag (the emoji or heading of the
\* f-string), the text that follows it, and for a week summary its lists
Entry(tag, text) == [tag |-> tag, text |-> text, summary |-> None]

-----------------------------------------------------------------------------
(* Weekly goals and their rollover.                                        *)

\* an archive that counts every goal of the old set as not completed
ArchiveSummaryAllOpen(data) ==
    LET texts == [k \in DOMAIN data.goals |-> data.goals[k].goal]
    IN  [tag |-> "week summary", text |-> <<>>,
         summary |-> Some([week |-> data.week,
                           ncompleted |-> 0, completed |-> <<>>,
                           nincomplete |-> Len(texts), incomplete |-> texts])]

\* the summary text archive_weekly_goals builds (lines 104-112)
ArchiveSummary(data) ==
    LET completed == SelectSeq(data.goals, LAMBDA g : g.completed)
        incomplete == SelectSeq(data.goals, LAMBDA g : ~g.completed)
    IN  [tag |-> "week summary", text |-> <<>>,
         summary |-> Some([week |-> data.week,
                           ncompleted |-> Len(completed),
                           completed |-> [k \in DOMAIN completed |-> completed[k].goal],
                           nincomplete |-> Len(incomplete),
                           incomplete |-> [k \in DOMAIN incomplete |-> incomplete[k].goal]])]

archive_weekly_goals(S, t, data) == append_journal(S, t, ArchiveSummary(data))

save_weekly_goals(S, data) == [S EXCEPT !.goalsFile = Some(data)]

EmptyWeek(t) == [week |-> WeekKey(DateOf(t)), goals |-> <<>>]

\* a read that archives a stale set but does not write the empty set back
ReadWeeklyGoalsNoReset(S, t) ==
    IF S.goalsFile = None THEN save_weekly_goals(S, EmptyWeek(t))
    ELSE IF S.goalsFile[1].week # WeekKey(DateOf(t))
    THEN IF S.goalsFile[1].goals # <<>>
         THEN archive_weekly_goals(S, t, S.goalsFile[1])
         ELSE save_weekly_goals(S, EmptyWeek(t))
    ELSE S

\* a read that archives a stale set whether or not it holds a goal
ReadWeeklyGoalsArchivesEmpty(S, t) ==
    IF S.goalsFile = None THEN save_weekly_goals(S, EmptyWeek(t))
    ELSE IF S.goalsFile[1].week # WeekKey(DateOf(t))
    THEN save_weekly_goals(archive_weekly_goals(S, t, S.goalsFile[1]), EmptyWeek(t))
    ELSE S

\* a read that archives a stale set and re-tags it, keeping its goals
ReadWeeklyGoalsKeepsGoals(S, t) ==
    IF S.goalsFile = None THEN save_weekly_goals(S, EmptyWeek(t))
    ELSE IF S.goalsFile[1].week # WeekKey(DateOf(t))
    THEN IF S.goalsFile[1].goals # <<>>
         THEN save_weekly_goals(archive_weekly_goals(S, t, S.goalsFile[1]),
                                [S.goalsFile[1] EXCEPT !.week = WeekKey(DateOf(t))])
         ELSE save_weekly_goals(S, EmptyWeek(t))
    ELSE S

\* read_weekly_goals: the stores afterwards (the file is created, or rolled
\* over to the current week after the old set is archived)
read_weekly_goals(S, t) ==
    IF S.goalsFile = None THEN save_weekly_goals(S, EmptyWeek(t))
    ELSE IF S.goalsFile[1].week # WeekKey(DateOf(t))
    THEN IF S.goalsFile[1].goals # <<>>
         THEN save_weekly_goals(archive_weekly_goals(S, t, S.goalsFile[1]), EmptyWeek(t))
         ELSE save_weekly_goals(S, EmptyWeek(t))
    ELSE S

\* the data read_weekly_goals returns
WeeklyGoalsRead(S, t) == read_weekly_goals(S, t).goalsFile[1]

add_weekly_goal(S, t, goal_text, category) ==
    LET S1 == read_weekly_goals(S, t)
        data == S1.goalsFile[1]
        goal == [id |-> NewId(S1), goal |-> goal_text, category |-> category,
                 completed |-> FALSE, created |-> DateOf(t), completed_date |-> None]
    IN  save_weekly_goals([S1 EXCEPT !.idClock = NewId(S1)],
                          [data EXCEPT !.goals = Append(@, goal)])

complete_weekly_goal(S, t, goal_id) ==
    LET S1 == read_weekly_goals(S, t)
        data == S1.goalsFile[1]
    IN  save_weekly_goals(S1,
            [data EXCEPT !.goals =
                [k \in DOMAIN data.goals |->
                    IF data.goals[k].id = goal_id
                    THEN [data.goals[k] EXCEPT !.completed = TRUE,
                                               !.completed_date = Some(DateOf(t))]
                    ELSE data.goals[k]]])

\* get_weekly_progress: <<completed, total>>
WeeklyProgress(S, t) ==
    LET data == WeeklyGoalsRead(S, t)
    IN  <<Len(SelectSeq(data.goals, LAMBDA g : g.completed)), Len(data.goals)>>

-----------------------------------------------------------------------------
(* Energy log: per date, the readings appended that day.                   *)

EnergyIndex(E, date) == FirstIndex({k \in DOMAIN E : E[k].date = date})

log_energy(S, t, level, note) ==
    LET i == EnergyIndex(S.energyFile, DateOf(t))
        reading == [time |-> t.tick, level |-> level, note |-> note]
    IN  IF i = 0
        THEN [S EXCEPT !.energyFile = Append(@, [date |-> DateOf(t), readings |-> <<reading>>])]
        ELSE [S EXCEPT !.energyFile[i].readings = Append(@, reading)]

\* get_latest_energy
get_latest_energy(S, t) ==
    LET i == EnergyIndex(S.energyFile, DateOf(t))
    IN  IF i = 0 THEN None
        ELSE Some(S.energyFile[i].readings[Len(S.energyFile[i].readings)])

-----------------------------------------------------------------------------
(* Dispatcher: the loop of process_ai_actions over the matched directives. *)
(* A match is [type, category, content], the three groups of the pattern.  *)

TASK == <<"T", "A", "S", "K">>
GOAL == <<"G", "O", "A", "L">>
HABIT == <<"H", "A", "B", "I", "T">>
ENERGY == <<"E", "N", "E", "R", "G", "Y">>
COMPLETE == <<"C", "O", "M", "P", "L", "E", "T", "E">>
JOURNAL == <<"J", "O", "U", "R", "N", "A", "L">>

\* a confirmation string: the fixed wording and the text interpolated
Confirmation(wording, text) == [wording |-> wording, text |-> text]

\* Python's truth value of a returned text or None: None and "" are false
Truthy(r) == r # None /\ r[1] # <<>>

\* a COMPLETE branch that falls back to the weekly goals when no task matches
CompleteWithGoalFallback(D, t, content) ==
    LET r == complete_task_by_name(D.S, t, content)
        goals == IF r.S.goalsFile = None THEN <<>> ELSE r.S.goalsFile[1].goals
        i == FirstIndex({k \in DOMAIN goals :
                 ~goals[k].completed /\ Contains(Lower(content), Lower(goals[k].goal))})
    IN  IF r.ret # None \/ i = 0
        THEN [S |-> r.S,
              actions |-> IF Truthy(r.ret)
                          THEN Append(D.actions, Confirmation("Completed", r.ret[1]))
                          ELSE D.actions]
        ELSE [S |-> complete_weekly_goal(r.S, t, goals[i].id),
              actions |-> Append(D.actions, Confirmation("Completed", goals[i].goal))]

\* lines 329-332
CompleteBranch(D, t, content) ==
    LET r == complete_task_by_name(D.S, t, content)
    IN  [S |-> r.S,
         actions |-> IF Truthy(r.ret)
                     THEN Append(D.actions, Confirmation("Completed", r.ret[1]))
                     ELSE D.actions]

\* lines 309-311: the groups of a match as the branches use them
Normalised(match) ==
    [type |-> Upper(match.type), category |-> Lower(match.category),
     content |-> Strip(match.content)]

\* one pass of the loop body (lines 313-336) on D = [S, actions], for a
\* normalised match
DispatchOne(D, t, match) ==
    LET action_type == match.type
        category == match.category
        content == match.content
    IN  IF action_type = TASK
        THEN [S |-> add_task(D.S, t, content, category, FALSE),
              actions |-> Append(D.actions, Confirmation("Added task", content))]
        ELSE IF action_type = GOAL
        THEN [S |-> add_weekly_goal(D.S, t, content, category),
              actions |-> Append(D.actions, Confirmation("Added weekly goal", content))]
        ELSE IF action_type = HABIT
        THEN [S |-> add_task(D.S, t, content, category, TRUE),
              actions |-> Append(D.actions, Confirmation("Added daily habit", content))]
        ELSE IF action_type = ENERGY
        THEN [S |-> log_energy(D.S, t, category, content),
              actions |-> Append(D.actions, Confirmation("Logged energy", category))]
        ELSE IF action_type = COMPLETE
        THEN CompleteBranch(D, t, content)
        ELSE IF action_type = JOURNAL
        THEN [S |-> append_journal(D.S, t, Entry("insight", content)),
              actions |-> Append(D.actions, Confirmation("Journaled insight", <<>>))]
        ELSE D

\* a loop that takes the first k matches last to first
RECURSIVE DispatchBackwards(_, _, _, _)
DispatchBackwards(S, t, matches, k) ==
    IF k = 0 THEN [S |-> S, actions |-> <<>>]
    ELSE DispatchOne(DispatchBackwards(S, t, Tail(matches), k - 1), t, Head(matches))

\* the loop over the first k matches
RECURSIVE Dispatch(_, _, _, _)
Dispatch(S, t, matches, k) ==
    IF k = 0 THEN [S |-> S, actions |-> <<>>]
    ELSE DispatchOne(Dispatch(S, t, matches, k - 1), t, matches[k])

-----------------------------------------------------------------------------
(* Parser: re.findall and re.sub with                                      *)
(*     action_pattern = \[ACTION:(\w+):(\w+):([^\]]+)\]                    *)

OpenTag == <<"[", "A", "C", "T", "I", "O", "N", ":">>

\* \w
IsWord(c) == c \in Range(LowerCase) \cup Range(UpperCase) \cup Range(Digits) \cup {"_"}

\* the end of the longest run of characters satisfying ok that starts at
\* position j of s (j - 1 when the run is empty)
RunEnd(s, j, ok(_)) ==
    CHOOSE e \in (j - 1)..Len(s) :
        /\ \A k \in j..e : ok(s[k])
        /\ e = Len(s) \/ ~ok(s[e + 1])

\* the match of the pattern that starts at position i of s: None, or
\* [type, category, content, end], end being the position of the closing "]".
\* Each group is followed by a character it cannot contain, so the greedy
\* run is the only candidate.
MatchAt(s, i) ==
    IF i + Len(OpenTag) - 1 > Len(s) \/ SubSeq(s, i, i + Len(OpenTag) - 1) # OpenTag
    THEN None
    ELSE LET a == i + Len(OpenTag)
             e1 == RunEnd(s, a, IsWord)
         IN  IF e1 < a \/ e1 + 1 > Len(s) \/ s[e1 + 1] # ":" THEN None
             ELSE LET b == e1 + 2
                      e2 == RunEnd(s, b, IsWord)
                  IN  IF e2 < b \/ e2 + 1 > Len(s) \/ s[e2 + 1] # ":" THEN None
                      ELSE LET c == e2 + 2
                               e3 == RunEnd(s, c, LAMBDA x : x # "]")
                           IN  IF e3 < c \/ e3 + 1 > Len(s) THEN None
                               ELSE Some([type |-> SubSeq(s, a, e1),
                                          category |-> SubSeq(s, b, e2),
                                          content |-> SubSeq(s, c, e3),
                                          end |-> e3 + 1])

\* re.findall: the non-overlapping matches, scanning s from position i
RECURSIVE FindAllFrom(_, _)
FindAllFrom(s, i) ==
    IF i > Len(s) THEN <<>>
    ELSE IF MatchAt(s, i) = None THEN FindAllFrom(s, i + 1)
    ELSE LET m == MatchAt(s, i)[1]
         IN  <<[type |-> m.type, category |-> m.category, content |-> m.content]>>
             \o FindAllFrom(s, m.end + 1)

findall(s) == FindAllFrom(s, 1)

\* re.sub(action_pattern, '', s): s without the matched spans
RECURSIVE SubFrom(_, _)
SubFrom(s, i) ==
    IF i > Len(s) THEN <<>>
    ELSE IF MatchAt(s, i) = None THEN <<s[i]>> \o SubFrom(s, i + 1)
    ELSE SubFrom(s, MatchAt(s, i)[1].end + 1)

\* a cleaning that removes the matched spans only
CleanResponseUnstripped(s) == SubFrom(s, 1)

\* line 339
clean_response(s) == Strip(SubFrom(s, 1))

-----------------------------------------------------------------------------
(* Inputs of the model: what the language model may answer.                *)

Tag(type, category, content) ==
    OpenTag \o type \o <<":">> \o category \o <<":">> \o content \o <<"]">>

work == <<"w", "o", "r", "k">>
health == <<"h", "e", "a", "l", "t", "h">>

\* lines 23-29: the keys of CATEGORIES
CATEGORIES ==
    { work, health,
      <<"p", "e", "r", "s", "o", "n", "a", "l", "_", "b", "r", "a", "n", "d">>,
      <<"d", "a", "i", "l", "y", "_", "c", "h", "o", "r", "e", "s">>,
      <<"l", "e", "a", "r", "n", "i", "n", "g">> }

\* a directive with a field missing, and an unterminated one
MissingField == OpenTag \o TASK \o <<":">> \o <<"Q", "r">> \o <<"]">>
Unterminated == OpenTag \o TASK \o <<":">> \o work \o <<":">> \o <<"Q", "r">>

\* pieces of a response that also occur beside another piece
PairPieces ==
    { <<"o", "k", " ">>,
      Tag(TASK, work, <<"Q", "r">>),
      Tag(GOAL, health, <<"Q", "r">>),
      Tag(COMPLETE, <<"t", "a", "s", "k">>, <<"q">>),
      Tag(COMPLETE, <<"t", "a", "s", "k">>, <<"x">>),
      Tag(JOURNAL, <<"n", "o", "n", "e">>, <<"x">>) }

Pieces ==
    PairPieces \cup
    { Tag(Lower(TASK), <<"M", "i", "s", "c">>, <<" ">>),
      Tag(HABIT, health, <<"r", " ">>),
      Tag(ENERGY, <<"L", "o", "w">>, <<"x">>),
      Tag(COMPLETE, <<"t", "a", "s", "k">>, <<" ">>),
      Tag(<<"N", "O", "T", "E">>, work, <<"x">>),
      MissingField,
      Unterminated }

\* a response is empty, one piece, or two pieces
Responses ==
    {<<>>} \cup Pieces \cup {p \o q : p \in PairPieces, q \in PairPieces}
    \cup {m \o Tag(TASK, work, <<"Q", "r">>) : m \in {MissingField, Unterminated}}
    \cup {Tag(TASK, work, <<"Q", "r">>) \o m : m \in {MissingField, Unterminated}}

\* each response with what lines 305-311 and 339 make of it: the matches
\* (normalised) and the cleaned text
Parsed(r) ==
    [text |-> r,
     matches |-> [k \in DOMAIN findall(r) |-> Normalised(findall(r)[k])],
     clean |-> clean_response(r)]

ParsedResponses == {Parsed(r) : r \in Responses}

\* texts and categories of the direct calls
TaskTexts == {<<"Q", "r">>, <<"r">>}
Names == {<<>>, <<"q">>, <<"R">>, <<"x">>}

\* the number of records the stores hold
Records(S) ==
    LET data == TasksOf(S.tasksFile)
    IN  Len(data.tasks) + Len(data.recurring)
        + Len(Concat([k \in DOMAIN data.recurring |-> data.recurring[k].completions]))
        + (IF S.goalsFile = None THEN 0 ELSE Len(S.goalsFile[1].goals))
        + Len(Concat([k \in DOMAIN S.energyFile |-> S.energyFile[k].readings]))
        + Len(Concat([k \in DOMAIN S.journal |-> S.journal[k].entries]))

\* the cap of the model on the size of the stores
Fits(S) == Records(S) <= MaxRecords /\ S.idClock <= MaxRecords

-----------------------------------------------------------------------------
(* Operations as steps of the system.                                      *)

\* a call that leaves the stores as S and returns r
Call(name, input, S, r) ==
    /\ Idle
    /\ Fits(S)
    /\ StoresBecome(S)
    /\ op' = name
    /\ arg' = input
    /\ ret' = r
    /\ pre' = Snapshot
    /\ UNCHANGED <<now, streakFile>>

\* process_ai_actions(response_text): returns (clean_response, actions_taken)
process_ai_actions ==
    /\ Idle
    /\ \E r \in ParsedResponses :
        LET D == Dispatch(Stores, now, r.matches, Len(r.matches))
        IN  /\ Records(D.S) <= MaxDispatched
            /\ Call("process_ai_actions", r, D.S,
                    [clean |-> r.clean, actions |-> D.actions])

\* add_task(task_text, category, is_recurring)
AddTask ==
    /\ Idle
    /\ \E text \in TaskTexts, is_recurring \in BOOLEAN :
        Call("add_task", [task |-> text, is_recurring |-> is_recurring],
             add_task(Stores, now, text, work, is_recurring), None)

\* complete_task(task_id, is_recurring)
CompleteTask ==
    /\ Idle
    /\ \E id \in 1..idClock, is_recurring \in BOOLEAN :
        Call("complete_task", [id |-> id, is_recurring |-> is_recurring],
             complete_task(Stores, now, id, is_recurring), None)

\* complete_task_by_name(task_name)
CompleteTaskByName ==
    /\ Idle
    /\ \E name \in Names :
        Call("complete_task_by_name", name,
             complete_task_by_name(Stores, now, name).S,
             complete_task_by_name(Stores, now, name).ret)

\* read_weekly_goals()
ReadWeeklyGoals ==
    /\ Idle
    /\ Call("read_weekly_goals", None, read_weekly_goals(Stores, now),
         Some(WeeklyGoalsRead(Stores, now)))

\* get_weekly_progress()
GetWeeklyProgress ==
    /\ Idle
    /\ Call("get_weekly_progress", None, read_weekly_goals(Stores, now),
         WeeklyProgress(Stores, now))

\* add_weekly_goal(goal_text, category)
AddWeeklyGoal ==
    /\ Idle
    /\ \E text \in TaskTexts :
        Call("add_weekly_goal", text, add_weekly_goal(Stores, now, text, work), None)

\* complete_weekly_goal(goal_id)
CompleteWeeklyGoal ==
    /\ Idle
    /\ \E id \in 1..idClock :
        Call("complete_weekly_goal", id, complete_weekly_goal(Stores, now, id), None)

-----------------------------------------------------------------------------
(* A script run: Streamlit runs the script top to bottom on every event:   *)
(* the streak check-in, the header, then the handler of the event.         *)

\* lines 472-480: the header reads the energy log, the weekly progress and
\* the open tasks
Header(S, t) == read_tasks(read_weekly_goals(S, t))

\* what the model call of a turn comes to
Outcomes == {"answered", "provider_error", "no_client"}

\* the warning strings of lines 345 and 435
Warning(kind) == [warning |-> kind]

\* a get_ai_response that notes a failed call in the journal
GetAiResponseLogsFailure(S, t, outcome, r) ==
    IF outcome = "no_client"
    THEN [S |-> S, response |-> Warning("no_client"), actions |-> <<>>]
    ELSE LET S1 == read_weekly_goals(read_tasks(S), t)
         IN  IF outcome = "provider_error"
             THEN [S |-> append_journal(S1, t, Entry("error", <<>>)),
                   response |-> Warning("provider_error"), actions |-> <<>>]
             ELSE LET D == Dispatch(S1, t, r.matches, Len(r.matches))
                  IN  [S |-> D.S, response |-> r.clean, actions |-> D.actions]

\* get_ai_response(user_input): [S: the stores afterwards, response, actions];
\* r is the parsed text the model answers with when the call succeeds
get_ai_response(S, t, outcome, r) ==
    IF outcome = "no_client"
    THEN [S |-> S, response |-> Warning("no_client"), actions |-> <<>>]
    ELSE LET S1 == read_weekly_goals(read_tasks(S), t)
         IN  IF outcome = "provider_error"
             THEN [S |-> S1, response |-> Warning("provider_error"), actions |-> <<>>]
             ELSE LET D == Dispatch(S1, t, r.matches, Len(r.matches))
                  IN  [S |-> D.S, response |-> r.clean, actions |-> D.actions]

\* line 532: a typed prompt is journalled cut to 80 characters; line 585: an
\* auto prompt is journalled whole
JournalledPrompt(prompt, kind) ==
    IF kind = "typed" /\ Len(prompt) > 80
    THEN SubSeq(prompt, 1, 80) \o <<".", ".", ".">>
    ELSE prompt

\* lines 533-535: one journal entry per confirmation, in order
RECURSIVE JournalActions(_, _, _, _)
JournalActions(S, t, actions, k) ==
    IF k = 0 THEN S
    ELSE append_journal(JournalActions(S, t, actions, k - 1), t,
                        Entry("confirmation", actions[k]))

\* lines 510-538 and 566-589: the handler of a prompt, on the stores the
\* header left; atCall and afterCall are the stores around get_ai_response
ChatHandler(S, t, prompt, kind, outcome, r) ==
    LET G == get_ai_response(S, t, outcome, r)
        S2 == append_journal(G.S, t, Entry("said", JournalledPrompt(prompt, kind)))
    IN  [S |-> JournalActions(S2, t, G.actions, Len(G.actions)),
         atCall |-> S, afterCall |-> G.S,
         response |-> G.response, actions |-> G.actions]

\* the prompts of the model: one typed, one of the quick-action buttons
Prompts == {[kind |-> "typed", text |-> <<"h", "i">>],
            [kind |-> "auto", text |-> <<"W", "r", "a", "p">>]}

\* the answers of the language model in a session
TurnResponses ==
    {p \in ParsedResponses :
        p.text \in { <<"o", "k", " ">>,
                     Tag(TASK, work, <<"Q", "r">>),
                     Tag(GOAL, health, <<"Q", "r">>),
                     Tag(HABIT, health, <<"r", " ">>),
                     Tag(JOURNAL, <<"n", "o", "n", "e">>, <<"x">>),
                     Tag(COMPLETE, <<"t", "a", "s", "k">>, <<"q">>),
                     Tag(GOAL, health, <<"Q", "r">>)
                         \o Tag(JOURNAL, <<"n", "o", "n", "e">>, <<"x">>) }}

\* a failed call has no answer
NoAnswer == [text |-> <<>>, matches |-> <<>>, clean |-> <<>>]

FitsSession(S) == Records(S) <= MaxSessionRecords /\ S.idClock <= MaxRecords

\* a script run that leaves the stores as S and returns r: line 459 checks
\* in the streak first
ScriptRun(name, input, S, r) ==
    /\ Idle
    /\ FitsSession(S)
    /\ StoresBecome(S)
    /\ streakFile' = Some(UpdatedStreak(get_streak, now))
    /\ op' = name
    /\ arg' = input
    /\ ret' = r
    /\ pre' = Snapshot
    /\ UNCHANGED now

\* a conversational turn: the user's prompt, the model call, the journal
ChatTurn ==
    /\ Idle
    /\ \E prompt \in Prompts, outcome \in Outcomes :
        \E r \in IF outcome = "answered" THEN TurnResponses ELSE {NoAnswer} :
            LET H == ChatHandler(Header(Stores, now), now, prompt.text, prompt.kind,
                                 outcome, r)
            IN  ScriptRun("chat",
                          [prompt |-> prompt, outcome |-> outcome, response |-> r],
                          H.S,
                          [response |-> H.response, actions |-> H.actions,
                           atCall |-> H.atCall, afterCall |-> H.afterCall])

\* lines 613-626: the button of an incomplete goal of the set just read
GoalButton ==
    /\ Idle
    /\ LET S1 == Header(Stores, now)
           goals == S1.goalsFile[1].goals
       IN  \E k \in DOMAIN goals :
               /\ ~goals[k].completed
               /\ ScriptRun("goal_button", goals[k].id,
                            append_journal(complete_weekly_goal(S1, now, goals[k].id), now,
                                           Entry("completed goal", goals[k].goal)),
                            None)

\* lines 633-646: the button of a habit that is not done today
HabitButton ==
    /\ Idle
    /\ LET S1 == Header(Stores, now)
           habits == TasksOf(S1.tasksFile).recurring
       IN  \E k \in DOMAIN habits :
               /\ ~done_today(habits[k], DateOf(now))
               /\ ScriptRun("habit_button", habits[k].id,
                            append_journal(complete_task(S1, now, habits[k].id, TRUE), now,
                                           Entry("habit", habits[k].task)),
                            None)

\* lines 652-666: the button of an open task listed under its category
TaskButton ==
    /\ Idle
    /\ LET S1 == Header(Stores, now)
           tasks == TasksOf(S1.tasksFile).tasks
       IN  \E k \in DOMAIN tasks :
               /\ tasks[k].status = "todo"
               /\ tasks[k].category \in CATEGORIES
               /\ ScriptRun("task_button", tasks[k].id,
                            append_journal(complete_task(S1, now, tasks[k].id, FALSE), now,
                                           Entry("task", tasks[k].task)),
                            None)

\* lines 673-679: the summary button, shown when today's journal is not empty
SummaryButton ==
    /\ Idle
    /\ LET S1 == Header(Stores, now)
       IN  /\ JournalIndex(S1.journal, DateOf(now)) # 0
           /\ ScriptRun("summary_button", None,
                        append_journal(S1, now, Entry("day summary", <<>>)), None)

-----------------------------------------------------------------------------
(* Initial state: no store file exists yet.                                *)

Init ==
    /\ now = [y |-> StartDate.y, m |-> StartDate.m, d |-> StartDate.d, tick |-> 0]
    /\ streakFile = None
    /\ tasksFile = None
    /\ goalsFile = None
    /\ energyFile = <<>>
    /\ journal = <<>>
    /\ idClock = 0
    /\ op = "idle"
    /\ arg = None
    /\ ret = None
    /\ pre = [streakFile |-> None, tasksFile |-> None, goalsFile |-> None,
              energyFile |-> <<>>, journal |-> <<>>, idClock |-> 0]

-----------------------------------------------------------------------------
(* The streak tracker alone: the clock and the check-in of each script run. *)

NextStreak ==
    \/ Return
    \/ Tick(MaxStreakDay)
    \/ update_streak

SpecStreak == Init /\ [][NextStreak]_vars

-----------------------------------------------------------------------------
(* The task store under direct calls.  (delete_task has no caller in the   *)
(* program and is not an operation of the model.)                          *)

NextTasks ==
    \/ Return
    \/ NextDay(MaxDay)
    \/ AddTask
    \/ CompleteTask
    \/ CompleteTaskByName

SpecTasks == Init /\ [][NextTasks]_vars

-----------------------------------------------------------------------------
(* The weekly-goal store under direct calls.                               *)

NextGoals ==
    \/ Return
    \/ NextDay(MaxDay)
    \/ ReadWeeklyGoals
    \/ GetWeeklyProgress
    \/ AddWeeklyGoal
    \/ CompleteWeeklyGoal

SpecGoals == Init /\ [][NextGoals]_vars

-----------------------------------------------------------------------------
(* The dispatcher: responses of the language model applied to the stores.  *)

NextDispatch ==
    \/ Return
    \/ NextDay(MaxDay)
    \/ process_ai_actions

SpecDispatch == Init /\ [][NextDispatch]_vars

-----------------------------------------------------------------------------
(* A session: script runs for chat turns and for the overview buttons.     *)

NextSession ==
    \/ Return
    \/ NextDay(MaxDay)
    \/ ChatTurn
    \/ GoalButton
    \/ HabitButton
    \/ TaskButton
    \/ SummaryButton

SpecSession == Init /\ [][NextSession]_vars

\* every operation of the model
Next ==
    \/ NextStreak
    \/ NextTasks
    \/ NextGoals
    \/ NextDispatch
    \/ NextSession

Spec == Init /\ [][Next]_vars

-----------------------------------------------------------------------------
(* Properties of the streak tracker.                                       *)

\* the streak the last operation started from
PreStreak == StreakOf(pre.streakFile)

Max(a, b) == IF a > b THEN a ELSE b

\* the last operation was update_streak and the stored last check-in was
\* the calendar day before today
RanOnConsecutiveDay ==
    /\ op = "update_streak"
    /\ PreStreak.last_checkin # None
    /\ NextDate(PreStreak.last_checkin[1]) = get_today

\* ... and the stored last check-in was more than one calendar day ago
RanAfterGap ==
    /\ op = "update_streak"
    /\ PreStreak.last_checkin # None
    /\ DateLess(NextDate(PreStreak.last_checkin[1]), get_today)

\* ... and there was no stored check-in at all
RanFirstTime ==
    /\ op = "update_streak"
    /\ PreStreak.last_checkin = None

\* ... and the stored last check-in was already today
RanAgainSameDay ==
    /\ op = "update_streak"
    /\ PreStreak.last_checkin = Some(get_today)

\* C1: when the last check-in is exactly one calendar day before today,
\* update_streak adds 1 to current and to total, makes longest the maximum
\* of longest and the new current, and sets the last check-in to today, at
\* whatever time of day it runs.
C1_ConsecutiveDayExtendsStreak ==
    RanOnConsecutiveDay =>
        /\ get_streak.current = PreStreak.current + 1
        /\ get_streak.total_days = PreStreak.total_days + 1
        /\ get_streak.longest = Max(PreStreak.longest, PreStreak.current + 1)
        /\ get_streak.last_checkin = Some(get_today)

\* the example of the specification, run later than midnight:
\* current 3, longest 5, total 10 becomes 4, 5, 11
C1_Witness ==
    /\ RanOnConsecutiveDay
    /\ now.tick > 0
    /\ PreStreak.current = 3 /\ PreStreak.longest = 5 /\ PreStreak.total_days = 10
    /\ get_streak.current = 4 /\ get_streak.longest = 5
    /\ get_streak.total_days = 11

\* C2: after a gap of more than one calendar day update_streak sets current
\* to 1 and adds exactly 1 to total; with no prior check-in it sets current
\* to 1 and total to 1; either way the last check-in becomes today and the
\* record returned is the record stored.
C2_GapOrFirstResetsCurrent ==
    /\ RanAfterGap =>
        /\ get_streak.current = 1
        /\ get_streak.total_days = PreStreak.total_days + 1
    /\ RanFirstTime =>
        /\ get_streak.current = 1
        /\ get_streak.total_days = 1
    /\ (RanAfterGap \/ RanFirstTime) =>
        /\ get_streak.last_checkin = Some(get_today)
        /\ streakFile # None
        /\ streakFile = ret

\* a streak of several days is reset after a gap, the total kept
C2_Witness ==
    /\ RanAfterGap
    /\ PreStreak.current = 3
    /\ PreStreak.total_days = 5
    /\ get_streak.current = 1
    /\ get_streak.total_days = 6

\* C3: after every update_streak, longest >= current.
C3_LongestIsRunningMax ==
    op = "update_streak" => get_streak.longest >= get_streak.current

\* C4: update_streak run when the last check-in is already today changes no
\* field of the stored streak.
C4_SameDayIsNoOp ==
    RanAgainSameDay =>
        /\ streakFile = pre.streakFile
        /\ ret = pre.streakFile

\* a second run on the same day, later in the day, on a streak in progress
C4_Witness ==
    /\ RanAgainSameDay
    /\ now.tick > 0
    /\ PreStreak.current = 2
    /\ PreStreak.total_days = 3

-----------------------------------------------------------------------------
(* Properties of the task store and the dispatcher.                        *)

\* the content of the stores, whether or not a file holding the empty
\* default has been created yet by a read
Content(S) ==
    [tasks |-> TasksOf(S.tasksFile), goals |-> S.goalsFile,
     energy |-> S.energyFile, journal |-> S.journal]

\* the stores the last operation started from
PreStores ==
    [tasksFile |-> pre.tasksFile, goalsFile |-> pre.goalsFile,
     energyFile |-> pre.energyFile, journal |-> pre.journal, idClock |-> pre.idClock]

\* c is a substring of text when case is ignored: at some offset of text
\* every character of c equals, up to case, the character of text there
ContainsIgnoringCase(c, text) ==
    \E i \in 0..(Len(text) - Len(c)) :
        \A j \in 1..Len(c) : LowerChar(text[i + j]) = LowerChar(c[j])

\* the positions of the open tasks of list whose text contains c
OpenMatches(c, list) ==
    {k \in DOMAIN list : list[k].status = "todo" /\ ContainsIgnoringCase(c, list[k].task)}

\* the positions of the incomplete goals of file whose text contains c
GoalMatches(c, file) ==
    IF file = None THEN {}
    ELSE {k \in DOMAIN file[1].goals :
             ~file[1].goals[k].completed /\ ContainsIgnoringCase(c, file[1].goals[k].goal)}

Least(set) == CHOOSE i \in set : \A j \in set : i <= j

\* C5: for every habit, a date appears at most once among its completions.
C5_HabitDateAtMostOnce ==
    \A k \in DOMAIN TasksOf(tasksFile).recurring :
        LET done == TasksOf(tasksFile).recurring[k].completions
        IN  \A i, j \in DOMAIN done : done[i] = done[j] => i = j

\* the response of the last operation is the single directive
\* [ACTION:COMPLETE:...:c], and before it no open task contained c but an
\* incomplete weekly goal did
CompleteMatchedOnlyAGoal ==
    /\ op = "process_ai_actions"
    /\ Len(arg.matches) = 1
    /\ arg.matches[1].type = COMPLETE
    /\ OpenMatches(arg.matches[1].content, TasksOf(pre.tasksFile).tasks) = {}
    /\ GoalMatches(arg.matches[1].content, pre.goalsFile) # {}

\* C6 as stated: such a directive marks the first matching goal completed,
\* changes no task, and is confirmed with the goal's text.
C6_CompletionFallsBackToGoal ==
    CompleteMatchedOnlyAGoal =>
        LET i == Least(GoalMatches(arg.matches[1].content, pre.goalsFile))
        IN  /\ goalsFile # None
            /\ Len(goalsFile[1].goals) = Len(pre.goalsFile[1].goals)
            /\ goalsFile[1].goals[i].completed
            /\ TasksOf(tasksFile) = TasksOf(pre.tasksFile)
            /\ Len(ret.actions) = 1
            /\ ret.actions[1].text = pre.goalsFile[1].goals[i].goal

\* C6 (amended): a COMPLETE directive whose content matches no open task
\* changes no task and no weekly goal and yields no confirmation, even when
\* an incomplete weekly goal contains the content: only one-off tasks are
\* searched.
C6_NoTaskMatchLeavesGoalsAlone ==
    CompleteMatchedOnlyAGoal =>
        /\ goalsFile = pre.goalsFile
        /\ TasksOf(tasksFile) = TasksOf(pre.tasksFile)
        /\ ret.actions = <<>>

\* the goal "Qr" is open, [ACTION:COMPLETE:task:q] is dispatched
C6_Witness ==
    /\ CompleteMatchedOnlyAGoal
    /\ arg.matches[1].content = <<"q">>
    /\ pre.goalsFile[1].goals[1].goal = <<"Q", "r">>
    /\ ~goalsFile[1].goals[1].completed

\* C7: complete_task_by_name(c) marks done exactly the first task, in list
\* order, that is open and contains c when case is ignored, and returns its
\* text; every other task and every habit is unchanged; with no such task
\* nothing changes.
C7_FirstOpenMatchCompleted ==
    op = "complete_task_by_name" =>
        LET old == TasksOf(pre.tasksFile).tasks
            new == TasksOf(tasksFile).tasks
            hits == OpenMatches(arg, old)
        IN  /\ TasksOf(tasksFile).recurring = TasksOf(pre.tasksFile).recurring
            /\ Len(new) = Len(old)
            /\ hits = {} => new = old /\ ret = None
            /\ hits # {} =>
                /\ \A k \in DOMAIN old : k # Least(hits) => new[k] = old[k]
                /\ new[Least(hits)] =
                       [old[Least(hits)] EXCEPT !.status = "done",
                                                !.completed = Some(get_today)]
                /\ ret = Some(old[Least(hits)].task)

\* the first task contains the name but is already done; the second, open
\* and containing it, is the one completed
C7_Witness ==
    /\ op = "complete_task_by_name"
    /\ Len(TasksOf(pre.tasksFile).tasks) = 2
    /\ TasksOf(pre.tasksFile).tasks[1].status = "done"
    /\ ContainsIgnoringCase(arg, TasksOf(pre.tasksFile).tasks[1].task)
    /\ TasksOf(pre.tasksFile).tasks[2].status = "todo"
    /\ arg # Lower(arg)
    /\ TasksOf(tasksFile).tasks[2].status = "done"

\* the dispatcher's state after the first k directives of the last response
After(k) == Dispatch(PreStores, now, arg.matches, k)

\* C8: there is one confirmation per directive that changed a store, in
\* order: the k-th directive adds a confirmation if and only if it changed
\* the content of some store, and the confirmations returned are those added.
C8_ConfirmationIffEffect ==
    op = "process_ai_actions" =>
        /\ ret.actions = After(Len(arg.matches)).actions
        /\ \A k \in DOMAIN arg.matches :
               (Content(After(k).S) # Content(After(k - 1).S))
                   <=> (Len(After(k).actions) = Len(After(k - 1).actions) + 1)

\* the k-th directive of the last response is a COMPLETE that no open task
\* matches when its turn comes
UnmatchedComplete(k) ==
    /\ arg.matches[k].type = COMPLETE
    /\ OpenMatches(arg.matches[k].content, TasksOf(After(k - 1).S.tasksFile).tasks) = {}

Without(seq, k) == SubSeq(seq, 1, k - 1) \o SubSeq(seq, k + 1, Len(seq))

\* C9: a COMPLETE directive that matches nothing changes no store and adds
\* no confirmation, and the other directives of the response take effect as
\* if it were not there.
C9_UnmatchedCompleteIsDropped ==
    op = "process_ai_actions" =>
        \A k \in DOMAIN arg.matches :
            UnmatchedComplete(k) =>
                /\ Content(After(k).S) = Content(After(k - 1).S)
                /\ After(k).S.idClock = After(k - 1).S.idClock
                /\ After(k).actions = After(k - 1).actions
                /\ LET rest == Dispatch(PreStores, now, Without(arg.matches, k),
                                        Len(arg.matches) - 1)
                   IN  /\ Content(Stores) = Content(rest.S)
                       /\ ret.actions = rest.actions

\* [ACTION:COMPLETE:task:x][ACTION:TASK:work:Qr] with an open task that "x"
\* does not match: the task is left open, the new task is added and confirmed
C9_Witness ==
    /\ op = "process_ai_actions"
    /\ Len(arg.matches) = 2
    /\ UnmatchedComplete(1)
    /\ arg.matches[2].type = TASK
    /\ Len(TasksOf(pre.tasksFile).tasks) = 1
    /\ TasksOf(pre.tasksFile).tasks[1].status = "todo"
    /\ Len(TasksOf(tasksFile).tasks) = 2
    /\ TasksOf(tasksFile).tasks[1].status = "todo"
    /\ Len(ret.actions) = 1

-----------------------------------------------------------------------------
(* Properties of the weekly-goal rollover.                                 *)

ReadPathOps ==
    {"read_weekly_goals", "get_weekly_progress", "add_weekly_goal", "complete_weekly_goal"}

\* the last operation went through read_weekly_goals and found a goal set
\* that is not empty and is tagged with another week than the current one
RolledOverGoals ==
    /\ op \in ReadPathOps
    /\ pre.goalsFile # None
    /\ pre.goalsFile[1].week # get_week_number
    /\ pre.goalsFile[1].goals # <<>>

\* C10: on such a read, one summary is appended to today's journal, its
\* "Completed (n)" and "Not completed (m)" counts are the numbers of
\* completed and incomplete goals of the old set, n + m is the size of the
\* old set, and the live store is then tagged with the current week and
\* holds none of the old goals: it is empty, but for the goal the
\* operation itself then adds.
C10_RolloverArchivesThenEmpties ==
    RolledOverGoals =>
        LET old == pre.goalsFile[1].goals
            n == Cardinality({k \in DOMAIN old : old[k].completed})
            m == Cardinality({k \in DOMAIN old : ~old[k].completed})
            before == JournalEntries(pre.journal, get_today)
            after == JournalEntries(journal, get_today)
        IN  /\ Len(after) = Len(before) + 1
            /\ SubSeq(after, 1, Len(before)) = before
            /\ \A k \in DOMAIN pre.journal :
                   pre.journal[k].date # get_today => journal[k] = pre.journal[k]
            /\ after[Len(after)].entry.tag = "week summary"
            /\ after[Len(after)].entry.summary[1].week = pre.goalsFile[1].week
            /\ after[Len(after)].entry.summary[1].ncompleted = n
            /\ after[Len(after)].entry.summary[1].nincomplete = m
            /\ Len(after[Len(after)].entry.summary[1].completed) = n
            /\ Len(after[Len(after)].entry.summary[1].incomplete) = m
            /\ n + m = Len(old)
            /\ goalsFile # None
            /\ goalsFile[1].week = get_week_number
            /\ op # "add_weekly_goal" => goalsFile[1].goals = <<>>
            /\ op = "add_weekly_goal" =>
                   /\ Len(goalsFile[1].goals) = 1
                   /\ goalsFile[1].goals[1].id > pre.idClock

\* a set of one completed and one incomplete goal of last week is read in
\* the new week
C10_Witness ==
    /\ RolledOverGoals
    /\ op = "read_weekly_goals"
    /\ Len(pre.goalsFile[1].goals) = 2
    /\ pre.goalsFile[1].goals[1].completed
    /\ ~pre.goalsFile[1].goals[2].completed
    /\ goalsFile[1].goals = <<>>
    /\ JournalEntries(journal, get_today) # <<>>

\* the week summaries in the journal directory J, as <<file, line>> positions
SummaryLines(J) ==
    UNION {{<<k, i>> : i \in {j \in DOMAIN J[k].entries :
                                  J[k].entries[j].entry.tag = "week summary"}}
           : k \in DOMAIN J}

\* the week a summary line is about
SummaryWeek(J, at) == J[at[1]].entries[at[2]].entry.summary[1].week

\* the last operation went through read_weekly_goals and found a goal set
\* of the current week
ReadFreshGoals ==
    /\ op \in ReadPathOps
    /\ pre.goalsFile # None
    /\ pre.goalsFile[1].week = get_week_number

\* C11: a week has at most one summary in the journal, however many reads
\* follow the week change (a read that finds the set of the current week
\* adds none), and once a week is summarised the live store is not tagged
\* with it and holds no goal created in it.
C11_ArchivalIsOneShot ==
    /\ \A at \in SummaryLines(journal) :
           /\ \A other \in SummaryLines(journal) :
                  SummaryWeek(journal, other) = SummaryWeek(journal, at) => other = at
           /\ goalsFile # None
           /\ goalsFile[1].week # SummaryWeek(journal, at)
           /\ \A k \in DOMAIN goalsFile[1].goals :
                  WeekKey(goalsFile[1].goals[k].created) # SummaryWeek(journal, at)
    /\ ReadFreshGoals => journal = pre.journal

\* a read-path operation that follows the rollover: the summary of the old
\* week is there already and nothing is appended
C11_Witness ==
    /\ ReadFreshGoals
    /\ SummaryLines(pre.journal) # {}
    /\ journal = pre.journal
    /\ Cardinality(SummaryLines(journal)) = 1

\* the last operation went through read_weekly_goals and found an empty
\* goal set tagged with another week than the current one
RolledOverEmpty ==
    /\ op \in ReadPathOps
    /\ pre.goalsFile # None
    /\ pre.goalsFile[1].week # get_week_number
    /\ pre.goalsFile[1].goals = <<>>

\* C12: a read that finds a stale week key and an empty goal set stores the
\* current week key and leaves the journal unchanged.
C12_EmptyRolloverOnlyRetags ==
    RolledOverEmpty =>
        /\ goalsFile[1].week = get_week_number
        /\ journal = pre.journal

C12_Witness ==
    /\ RolledOverEmpty
    /\ op = "get_weekly_progress"
    /\ goalsFile[1] = [week |-> get_week_number, goals |-> <<>>]
    /\ journal = <<>>

\* C20: after a read-path operation the stored week key is the current one,
\* and in every state each goal of the stored set was created in the week
\* the set is tagged with: a set tagged with the current week holds no goal
\* of an earlier week.
C20_GoalsBelongToTheirWeek ==
    /\ op \in ReadPathOps => goalsFile # None /\ goalsFile[1].week = get_week_number
    /\ goalsFile # None =>
           \A k \in DOMAIN goalsFile[1].goals :
               WeekKey(goalsFile[1].goals[k].created) = goalsFile[1].week

\* a goal is added in the new week to a store that held a goal of the old
\* week: the live set is the new goal alone
C20_Witness ==
    /\ op = "add_weekly_goal"
    /\ RolledOverGoals
    /\ Len(goalsFile[1].goals) = 1
    /\ WeekKey(goalsFile[1].goals[1].created) = get_week_number
    /\ WeekKey(pre.goalsFile[1].goals[1].created) # get_week_number

-----------------------------------------------------------------------------
(* Life cycle of a one-off task.                                           *)

\* C16: a one-off task that was done when an operation started is the same
\* task, still done, when the operation returns, and in every state a task
\* carries a completion date exactly when its status is done.
C16_DoneIsTerminal ==
    LET old == TasksOf(pre.tasksFile).tasks
        new == TasksOf(tasksFile).tasks
    IN  /\ Len(old) <= Len(new)
        /\ \A k \in DOMAIN old :
               /\ new[k].id = old[k].id
               /\ old[k].status = "done" => new[k].status = "done"
        /\ \A k \in DOMAIN new :
               /\ new[k].status \in {"todo", "done"}
               /\ (new[k].completed # None) <=> (new[k].status = "done")

\* complete_task is called on a task that is already done, a day after it
\* was completed: it stays done
C16_Witness ==
    /\ op = "complete_task"
    /\ ~arg.is_recurring
    /\ \E k \in DOMAIN TasksOf(pre.tasksFile).tasks :
           /\ TasksOf(pre.tasksFile).tasks[k].id = arg.id
           /\ TasksOf(pre.tasksFile).tasks[k].status = "done"
           /\ TasksOf(pre.tasksFile).tasks[k].completed # Some(get_today)
           /\ TasksOf(tasksFile).tasks[k].status = "done"

-----------------------------------------------------------------------------
(* Properties of the parser and of the order of dispatch.                  *)

Prose == <<"o", "k", " ">>

\* the directives whose tokens occur beside another piece in a response
PairDirectives ==
    { [type |-> TASK, category |-> work, content |-> <<"Q", "r">>],
      [type |-> GOAL, category |-> health, content |-> <<"Q", "r">>],
      [type |-> COMPLETE, category |-> <<"t", "a", "s", "k">>, content |-> <<"q">>],
      [type |-> COMPLETE, category |-> <<"t", "a", "s", "k">>, content |-> <<"x">>],
      [type |-> JOURNAL, category |-> <<"n", "o", "n", "e">>, content |-> <<"x">>] }

TokenOf(d) == Tag(d.type, d.category, d.content)

\* the directives a piece stands for: one for a token, none for prose
DirectivesOf(piece) ==
    IF \E d \in PairDirectives : TokenOf(d) = piece
    THEN <<CHOOSE d \in PairDirectives : TokenOf(d) = piece>>
    ELSE <<>>

\* one directive, if any, applied to the dispatcher's state D
Applied(D, directives) ==
    IF directives = <<>> THEN D ELSE DispatchOne(D, now, directives[1])

NothingDispatched == [S |-> PreStores, actions |-> <<>>]

AddThenComplete ==
    TokenOf([type |-> TASK, category |-> work, content |-> <<"Q", "r">>])
    \o TokenOf([type |-> COMPLETE, category |-> <<"t", "a", "s", "k">>, content |-> <<"q">>])

CompleteThenAdd ==
    TokenOf([type |-> COMPLETE, category |-> <<"t", "a", "s", "k">>, content |-> <<"q">>])
    \o TokenOf([type |-> TASK, category |-> work, content |-> <<"Q", "r">>])

\* C17: for a response made of two pieces, the actions parsed are the
\* directives of the first piece and then of the second; the stores and the
\* confirmations are those of applying the second to what the first left.
\* With no open task matching "q" before, [TASK Qr][COMPLETE q] leaves the
\* new task done, [COMPLETE q][TASK Qr] leaves it open.
C17_ActionsAppliedInTextOrder ==
    op = "process_ai_actions" =>
        /\ \A p, q \in PairPieces :
               arg.text = p \o q =>
                   /\ arg.matches = DirectivesOf(p) \o DirectivesOf(q)
                   /\ Content(Stores) =
                          Content(Applied(Applied(NothingDispatched, DirectivesOf(p)),
                                          DirectivesOf(q)).S)
                   /\ ret.actions =
                          Applied(Applied(NothingDispatched, DirectivesOf(p)),
                                  DirectivesOf(q)).actions
        /\ OpenMatches(<<"q">>, TasksOf(pre.tasksFile).tasks) = {} =>
               LET new == TasksOf(tasksFile).tasks
               IN  /\ arg.text = AddThenComplete =>
                          /\ new[Len(new)].status = "done"
                          /\ ret.actions = <<Confirmation("Added task", <<"Q", "r">>),
                                             Confirmation("Completed", <<"Q", "r">>)>>
                   /\ arg.text = CompleteThenAdd =>
                          /\ new[Len(new)].status = "todo"
                          /\ ret.actions = <<Confirmation("Added task", <<"Q", "r">>)>>

\* [ACTION:TASK:work:Qr][ACTION:COMPLETE:task:q] on stores without a task
C17_Witness ==
    /\ op = "process_ai_actions"
    /\ arg.text = AddThenComplete
    /\ TasksOf(pre.tasksFile).tasks = <<>>
    /\ Len(TasksOf(tasksFile).tasks) = 1
    /\ TasksOf(tasksFile).tasks[1].status = "done"
    /\ Len(ret.actions) = 2

\* the last response was text and added exactly the task "Qr"
OnlyTaskQrAdded ==
    /\ arg.matches = <<[type |-> TASK, category |-> work, content |-> <<"Q", "r">>]>>
    /\ Len(TasksOf(tasksFile).tasks) = Len(TasksOf(pre.tasksFile).tasks) + 1
    /\ TasksOf(tasksFile).tasks[Len(TasksOf(tasksFile).tasks)].task = <<"Q", "r">>
    /\ ret.actions = <<Confirmation("Added task", <<"Q", "r">>)>>

\* C18: a token with a field missing, or without its closing bracket, is no
\* action and stays in the display text as it is, alone or beside a
\* well-formed token, which is parsed, applied and removed.
C18_MalformedTokenIsInert ==
    op = "process_ai_actions" =>
        \A bad \in {MissingField, Unterminated} :
            /\ arg.text = bad =>
                   /\ arg.matches = <<>>
                   /\ ret.clean = bad
                   /\ ret.actions = <<>>
                   /\ Content(Stores) = Content(PreStores)
            /\ arg.text = bad \o Tag(TASK, work, <<"Q", "r">>) =>
                   OnlyTaskQrAdded /\ ret.clean = bad
            /\ arg.text = Tag(TASK, work, <<"Q", "r">>) \o bad =>
                   OnlyTaskQrAdded /\ ret.clean = bad

\* the texts of the model without a directive token
NoTokenTexts == {<<>>, Prose, Prose \o Prose, MissingField, Unterminated}

\* the prose that may stand before and after a token: <<before, after>>
Surroundings == {<<<<>>, <<>>>>, <<Prose, <<>>>>, <<<<>>, Prose>>}

\* r is s without its leading and trailing whitespace
IsStripOf(r, s) ==
    \E i \in 1..(Len(s) + 1) : \E j \in (i - 1)..Len(s) :
        /\ r = SubSeq(s, i, j)
        /\ \A k \in 1..(i - 1) : s[k] \in Whitespace
        /\ \A k \in (j + 1)..Len(s) : s[k] \in Whitespace
        /\ j >= i => s[i] \notin Whitespace /\ s[j] \notin Whitespace

\* C19 as stated: text without a token comes back unchanged, with no action
\* and no change of a store; with one token in prose, the text comes back
\* with exactly the token's span removed.
C19_CleanTextIsTextMinusTokens ==
    op = "process_ai_actions" =>
        /\ \A text \in NoTokenTexts :
               arg.text = text =>
                   /\ ret.clean = text
                   /\ ret.actions = <<>>
                   /\ Content(Stores) = Content(PreStores)
        /\ \A d \in PairDirectives, around \in Surroundings :
               arg.text = around[1] \o TokenOf(d) \o around[2] =>
                   /\ arg.matches = <<d>>
                   /\ ret.clean = around[1] \o around[2]

\* C19 (amended): text without a token comes back with its leading and
\* trailing whitespace stripped and otherwise unchanged, with no action and
\* no change of a store; with one token in prose, the text comes back with
\* exactly the token's span removed and then stripped in the same way.
C19_CleanTextIsStrippedTextMinusTokens ==
    op = "process_ai_actions" =>
        /\ \A text \in NoTokenTexts :
               arg.text = text =>
                   /\ IsStripOf(ret.clean, text)
                   /\ ret.actions = <<>>
                   /\ Content(Stores) = Content(PreStores)
        /\ \A d \in PairDirectives, around \in Surroundings :
               arg.text = around[1] \o TokenOf(d) \o around[2] =>
                   /\ arg.matches = <<d>>
                   /\ IsStripOf(ret.clean, around[1] \o around[2])

\* "ok [ACTION:TASK:work:Qr]" is shown as "ok"
C19_Witness ==
    /\ op = "process_ai_actions"
    /\ arg.text = Prose \o Tag(TASK, work, <<"Q", "r">>)
    /\ ret.clean = <<"o", "k">>
    /\ Len(arg.matches) = 1

-----------------------------------------------------------------------------
(* Properties of a session: the turn, its failures, the journal.           *)

\* the entries today's journal gained in the last operation
NewEntries ==
    SubSeq(JournalEntries(journal, get_today),
           Len(JournalEntries(pre.journal, get_today)) + 1,
           Len(JournalEntries(journal, get_today)))

\* C13: the entries a turn adds to the journal start with the user's
\* input, which is the only entry of its kind, and end with one entry per
\* confirmation in order; every other entry of the turn (an insight, a
\* week summary) lies between them.
C13_UserInputJournalledFirst ==
    op = "chat" =>
        /\ NewEntries # <<>>
        /\ NewEntries[1].entry.tag = "said"
        /\ \A i \in 2..Len(NewEntries) : NewEntries[i].entry.tag # "said"
        /\ Len(NewEntries) >= Len(ret.actions) + 1
        /\ \A i \in DOMAIN ret.actions :
               NewEntries[Len(NewEntries) - Len(ret.actions) + i].entry
                   = Entry("confirmation", ret.actions[i])

\* the stores named by the claim, as get_ai_response found or left them
FourStores(S) ==
    [tasksFile |-> S.tasksFile, goalsFile |-> S.goalsFile,
     energyFile |-> S.energyFile, journal |-> S.journal]

\* C14: when the model call of a turn fails, or there is no client,
\* get_ai_response returns the warning and no action, and the task store,
\* the weekly goals, the energy log and the journal are after the call what
\* they were before it.
C14_FailedCallTouchesNoStore ==
    (op = "chat" /\ arg.outcome # "answered") =>
        /\ ret.response = Warning(arg.outcome)
        /\ ret.actions = <<>>
        /\ FourStores(ret.afterCall) = FourStores(ret.atCall)
        /\ FourStores(Stores).tasksFile = ret.atCall.tasksFile
        /\ FourStores(Stores).goalsFile = ret.atCall.goalsFile
        /\ FourStores(Stores).energyFile = ret.atCall.energyFile

\* the call fails in the first script run of a new week, whose header has
\* just archived the goals of the old week
C14_Witness ==
    /\ op = "chat"
    /\ arg.outcome = "provider_error"
    /\ pre.goalsFile # None
    /\ pre.goalsFile[1].goals # <<>>
    /\ pre.goalsFile[1].week # get_week_number
    /\ ret.atCall.goalsFile[1].goals = <<>>
    /\ ret.afterCall = ret.atCall
    /\ Len(NewEntries) = 2

IsPrefix(a, b) == Len(a) <= Len(b) /\ SubSeq(b, 1, Len(a)) = a

\* C15: every day file the journal held when an operation started is
\* there when it returns, with the same header and with its entries as a
\* prefix of the entries it has now; and there is one file, so one header,
\* per day, created with the first entry of the day.
C15_JournalIsAppendOnly ==
    /\ Len(pre.journal) <= Len(journal)
    /\ \A k \in DOMAIN pre.journal :
           /\ journal[k].date = pre.journal[k].date
           /\ journal[k].header = pre.journal[k].header
           /\ IsPrefix(pre.journal[k].entries, journal[k].entries)
    /\ \A k, l \in DOMAIN journal : journal[k].date = journal[l].date => k = l
    /\ \A k \in DOMAIN journal :
           /\ journal[k].header.date = journal[k].date
           /\ journal[k].entries # <<>>

\* a turn whose answer carries a JOURNAL directive, on a day whose journal
\* already has entries: three more are appended
C15_Witness ==
    /\ op = "chat"
    /\ JournalEntries(pre.journal, get_today) # <<>>
    /\ Len(NewEntries) = 3
    /\ IsPrefix(JournalEntries(pre.journal, get_today), JournalEntries(journal, get_today))
    /\ \E i \in DOMAIN NewEntries : NewEntries[i].entry.tag = "insight"

-----------------------------------------------------------------------------
(* Week scoping, categories, and the counters of the streak.               *)

\* the ISO week of a date, named by the ordinal of its Monday (ISO weeks
\* run Monday to Sunday; Weekday is 0 on Monday)
IsoWeekMonday(date) == ToOrdinal(date) - Weekday(date)

\* C21: a read-path operation keeps in the live set, and does not archive,
\* every goal that was created in the ISO week of today.
C21_NoRolloverInsideIsoWeek ==
    (op \in ReadPathOps /\ pre.goalsFile # None) =>
        \A k \in DOMAIN pre.goalsFile[1].goals :
            IsoWeekMonday(pre.goalsFile[1].goals[k].created) = IsoWeekMonday(get_today) =>
                /\ SummaryLines(journal) = SummaryLines(pre.journal)
                /\ \E l \in DOMAIN goalsFile[1].goals :
                       goalsFile[1].goals[l].id = pre.goalsFile[1].goals[k].id

\* the categories of the records in the task store and the weekly goals
StoredCategories ==
    {TasksOf(tasksFile).tasks[k].category : k \in DOMAIN TasksOf(tasksFile).tasks}
    \cup {TasksOf(tasksFile).recurring[k].category :
              k \in DOMAIN TasksOf(tasksFile).recurring}
    \cup (IF goalsFile = None THEN {}
          ELSE {goalsFile[1].goals[k].category : k \in DOMAIN goalsFile[1].goals})

\* C22: every task, habit and weekly goal in the stores has a category of
\* the closed set CATEGORIES.
C22_CategoriesAreClosed == StoredCategories \subseteq CATEGORIES

\* C23: after every update_streak, current and longest are at most total,
\* total is not below what it was and at most 1 above it, is unchanged when
\* the stored check-in was already today, and is at most the number of
\* calendar days since the first run.
C23_TotalBoundsTheCounters ==
    /\ get_streak.current <= get_streak.total_days
    /\ get_streak.longest <= get_streak.total_days
    /\ get_streak.total_days >= PreStreak.total_days
    /\ get_streak.total_days <= PreStreak.total_days + 1
    /\ RanAgainSameDay => get_streak.total_days = PreStreak.total_days
    /\ get_streak.total_days <= DaysElapsed + 1

\* a check-in after a gap, following a run of consecutive days: current
\* falls to 1 while total goes on counting
C23_Witness ==
    /\ RanAfterGap
    /\ PreStreak.current = 2
    /\ get_streak.current = 1
    /\ get_streak.longest = 2
    /\ get_streak.total_days = PreStreak.total_days + 1
    /\ get_streak.total_days >= 4

=============================================================================
